---- MODULE Spec2Model ----
(***************************************************************************)
(* Model of src/fg/mk.py: an HTTP service with two handlers.               *)
(*   scrape_and_upsert: validate urls, crawl each url, clean and join the  *)
(*     markdown, write it to a temporary file, create a remote assistant   *)
(*     and vector store, upload the file, bind the store to the assistant. *)
(*   ask_question: look up assistant and vector store, create a thread,    *)
(*     run the assistant, rewrite the answer's annotations to [i] markers. *)
(* Text is a sequence of tokens.  In scraped markdown the four literal     *)
(* markers of the two cleanup patterns are single tokens; in answers the   *)
(* tokens are characters.                                                   *)
(***************************************************************************)
EXTENDS Integers, Sequences, FiniteSets, TLC

VARIABLES
    req,            \* per request: the handler's position and its locals
    fs,             \* the local temporary directory: path -> file content
    assistants,     \* remote: assistant id -> bound vector_store_ids
    vector_stores,  \* remote: vector store id -> contents of the ingested files
    threads,        \* remote: thread id -> runs started on it (assistant ids)
    raw,            \* cleanup check: the markdown the crawler returned
    content,        \* cleanup check: the text after `pat` patterns
    pat             \* cleanup check: number of patterns applied so far

vars == <<req, fs, assistants, vector_stores, threads, raw, content, pat>>

svcVars == <<req, fs, assistants, vector_stores, threads>>
cleanVars == <<raw, content, pat>>

\* ------------------------------------------------------------------ bounds
MaxLen == 5
MaxUrls == 2

\* ------------------------------------------------------------ text helpers
Min(S) == CHOOSE x \in S : \A y \in S : x <= y
Max(S) == CHOOSE x \in S : \A y \in S : x >= y

RECURSIVE SeqsUpTo(_, _)
SeqsUpTo(A, n) ==
    IF n = 0 THEN {<<>>}
    ELSE LET shorter == SeqsUpTo(A, n - 1)
         IN  shorter \cup {Append(s, a) : s \in {t \in shorter : Len(t) = n - 1}, a \in A}

\* --------------------------------------------------- scrape_urls: patterns
SubscribeStart == "##  Subscribe to our emails"
SubscribeEnd == "* Opens in a new window."
SkipStart == "Skip to content"
SkipEnd == "View cart Check out  Continue shopping"
NL == "\n"

\* patterns = [r"<start>.*?<end>", ...]
\* No marker overlaps itself or another marker of its pattern (no proper suffix
\* of one is a prefix of one), so an occurrence is one token.
patterns ==
    << [start |-> SubscribeStart, end |-> SubscribeEnd],
       [start |-> SkipStart, end |-> SkipEnd] >>

\* Positions at which a match that starts at i may end: `.` matches a line
\* break only under re.DOTALL.
MatchEnds(p, s, i, dotall) ==
    {j \in (i + 1)..Len(s) :
        /\ s[j] = p.end
        /\ dotall \/ \A k \in (i + 1)..(j - 1) : s[k] # NL}

ReMatchEndGreedy(p, s, i, dotall) == Max(MatchEnds(p, s, i, dotall))

\* `.*?` is lazy: the match ends at the first end marker.
ReMatchEnd(p, s, i, dotall) == Min(MatchEnds(p, s, i, dotall))

\* re.sub(pattern, repl, s, flags): leftmost non-overlapping matches, scanned
\* left to right from position i.
RECURSIVE ReSubFrom(_, _, _, _, _)
ReSubFrom(p, repl, s, dotall, i) ==
    IF i > Len(s) THEN <<>>
    ELSE IF s[i] = p.start /\ MatchEnds(p, s, i, dotall) # {}
         THEN repl \o ReSubFrom(p, repl, s, dotall, ReMatchEnd(p, s, i, dotall) + 1)
         ELSE <<s[i]>> \o ReSubFrom(p, repl, s, dotall, i + 1)

ReSub(p, repl, s, dotall) == ReSubFrom(p, repl, s, dotall, 1)

\* for pattern in patterns: content = re.sub(pattern, "", content, flags=re.DOTALL)
RECURSIVE CleanFrom(_, _)
CleanFrom(s, k) ==
    IF k > Len(patterns) THEN s
    ELSE CleanFrom(ReSub(patterns[k], <<>>, s, TRUE), k + 1)

Clean(s) == CleanFrom(s, 1)

\* ------------------------------------------------ cleanup on bounded texts
Alphabet == {SubscribeStart, SubscribeEnd, SkipStart, SkipEnd, NL, "x"}

ApplyPattern ==
    /\ pat < Len(patterns)
    /\ content' = ReSub(patterns[pat + 1], <<>>, content, TRUE)
    /\ pat' = pat + 1
    /\ UNCHANGED raw

\* ---------------------------------------------------------- request model
\* Two requests are handled concurrently, each by its own worker thread.
Reqs == {"r1", "r2"}
URLs == {"u1", "u2"}

\* The characters of a URL string, as `for url in <str>` would yield them.
Chars(s) ==
    CASE s = "u1" -> <<"u", "1">>
      [] s = "u2" -> <<"u", "2">>
      [] OTHER -> <<s>>

\* Request bodies: urls is a string, a list of strings, or neither.
StrBody(s) == [kind |-> "str", val |-> s]
ListBody(l) == [kind |-> "list", val |-> l]
BadBody == [kind |-> "bad", val |-> <<>>]
NoBody == [kind |-> "none", val |-> <<>>]

Bodies ==
    {StrBody(s) : s \in URLs}
        \cup {ListBody(l) : l \in SeqsUpTo(URLs, MaxUrls)}
        \cup {BadBody}

ensure_list_identity(v) == v

\* URLRequest.ensure_list
ensure_list(v) == IF v.kind = "str" THEN ListBody(<<v.val>>) ELSE v

\* The items a `for` loop over the validated value visits.
Items(v) == IF v.kind = "str" THEN Chars(v.val) ELSE v.val

\* The web: the markdown the crawler returns for a url when the fetch succeeds.
Markdown(url) ==
    CASE url = "u1" -> <<"x", SubscribeStart, NL, SubscribeEnd>>
      [] url = "u2" -> <<SkipStart, "x">>
      [] OTHER -> <<url>>

\* "\n\n---\n\n"
Separator == <<NL, NL, "---", NL, NL>>

\* A join that also puts the separator after the last part.
RECURSIVE JoinTrailing(_, _)
JoinTrailing(sep, parts) ==
    IF parts = <<>> THEN <<>>
    ELSE parts[1] \o sep \o JoinTrailing(sep, Tail(parts))

\* separator.join(parts)
RECURSIVE Join(_, _)
Join(sep, parts) ==
    IF parts = <<>> THEN <<>>
    ELSE IF Len(parts) = 1 THEN parts[1]
    ELSE parts[1] \o sep \o Join(sep, Tail(parts))

\* ------------------------------------------------- answers and annotations
DigitChars == <<"0", "1", "2", "3", "4", "5", "6", "7", "8", "9">>

RECURSIVE IntToStr(_)
IntToStr(n) ==
    IF n < 10 THEN <<DigitChars[n + 1]>>
    ELSE IntToStr(n \div 10) \o <<DigitChars[(n % 10) + 1]>>

\* f"[{index}]"
Marker(index) == <<"[">> \o IntToStr(index) \o <<"]">>

\* str.replace(old, new): every non-overlapping occurrence, left to right.
RECURSIVE ReplaceFrom(_, _, _, _)
ReplaceFrom(s, old, new, i) ==
    IF i > Len(s) THEN IF old = <<>> THEN new ELSE <<>>
    ELSE IF old = <<>> THEN new \o <<s[i]>> \o ReplaceFrom(s, old, new, i + 1)
    ELSE IF i + Len(old) - 1 <= Len(s) /\ SubSeq(s, i, i + Len(old) - 1) = old
         THEN new \o ReplaceFrom(s, old, new, i + Len(old))
         ELSE <<s[i]>> \o ReplaceFrom(s, old, new, i + 1)

Replace(s, old, new) == ReplaceFrom(s, old, new, 1)

\* Remote file metadata: file id -> filename.
Filename(file_id) == <<"f">> \o IntToStr(file_id)

\* An annotation: its literal text in the answer and the cited file id
\* (0: the annotation has no file_citation attribute).
Ann(text, file_id) == [text |-> text, file_id |-> file_id]

\* First messages a completed run may produce.
Messages ==
    { [value |-> <<"a", "b">>, annotations |-> <<>>],
      [value |-> <<"a", "<", "s", ">", "b", "<", "t", ">">>,
       annotations |-> << Ann(<<"<", "s", ">">>, 1), Ann(<<"<", "t", ">">>, 2) >>],
      [value |-> <<"a", "<", "s", ">", "b", "<", "s", ">">>,
       annotations |-> << Ann(<<"<", "s", ">">>, 1), Ann(<<"<", "s", ">">>, 1) >>],
      [value |-> <<"a", "<", "s", ">">>,
       annotations |-> << Ann(<<"<", "s", ">">>, 0) >>] }

\* ------------------------------------------------------------------- state
NoResponse ==
    [status |-> 0, detail |-> <<>>, assistant_id |-> 0, vector_store_id |-> 0,
     count |-> 0, answer |-> <<>>]

InitReq ==
    [pc |-> "idle", body |-> NoBody, urls |-> NoBody,
     scraped_contents |-> <<>>, crawl |-> <<>>, temp_file_path |-> 0,
     assistant |-> 0, vector_store |-> 0,
     assistant_id |-> 0, vector_store_id |-> 0, thread |-> 0,
     value |-> <<>>, annotations |-> <<>>, index |-> 0, citations |-> <<>>,
     calls |-> <<>>, response |-> NoResponse]

\* No request received yet; nothing on disk, nothing created remotely.
Init ==
    /\ req = [r \in Reqs |-> InitReq]
    /\ fs = <<>>
    /\ assistants = <<>>
    /\ vector_stores = <<>>
    /\ threads = <<>>
    /\ raw = <<>>
    /\ content = <<>>
    /\ pat = 0

\* One remote call of a request: the operation, whether it returned, and the
\* identifier it created or addressed.
Call(op, ok, id) == [op |-> op, ok |-> ok, id |-> id]

\* except Exception as e: raise HTTPException(status_code=500, detail=str(e))
\* for a failed call `op`: nothing is undone, nothing is retried.
RaiseWithRollback(r, op, detail) ==
    /\ req' = [req EXCEPT ![r].pc = "error",
                          ![r].calls = Append(@, Call(op, FALSE, 0)),
                          ![r].response = [NoResponse EXCEPT !.status = 500,
                                                             !.detail = detail]]
    /\ assistants' = [a \in DOMAIN assistants \ {req[r].assistant} |-> assistants[a]]
    /\ UNCHANGED <<fs, vector_stores, threads>>

Raise(r, op, detail) ==
    /\ req' = [req EXCEPT ![r].pc = "error",
                          ![r].calls = Append(@, Call(op, FALSE, 0)),
                          ![r].response = [NoResponse EXCEPT !.status = 500,
                                                             !.detail = detail]]
    /\ UNCHANGED <<fs, assistants, vector_stores, threads>>

\* tempfile.NamedTemporaryFile(delete=False): a name no existing file has.
SharedTempFile == IF Len(fs) = 0 THEN 1 ELSE Len(fs)
NamedTemporaryFile == Len(fs) + 1


NewId(f) == Cardinality(DOMAIN f) + 1

Put(f, k, v) == [x \in DOMAIN f \cup {k} |-> IF x = k THEN v ELSE f[x]]

\* ------------------------------------------------------ scrape_and_upsert
\* The request arrives; pydantic validates the body (ensure_list included).
\* A body that is neither a string nor a list of strings is rejected.
ReceiveScrape(r, b) ==
    /\ req[r].pc = "idle"
    /\ IF b.kind = "bad"
       THEN req' = [req EXCEPT ![r].pc = "rejected", ![r].body = b,
                               ![r].response = [NoResponse EXCEPT !.status = 422]]
       ELSE req' = [req EXCEPT ![r].pc = "warmup", ![r].body = b,
                               ![r].urls = ensure_list(b)]
    /\ UNCHANGED <<fs, assistants, vector_stores, threads>>

\* End of the for loop of scrape_urls: join, write the temporary file, return
\* its path; the handler goes on to create_assistant_and_vectorstore.
WriteDocument(r, scraped, log) ==
    LET path == NamedTemporaryFile
        combined_content == Join(Separator, scraped)
    IN  /\ req' = [req EXCEPT ![r].pc = "create_assistant",
                              ![r].scraped_contents = scraped,
                              ![r].crawl = log,
                              ![r].temp_file_path = path]
        /\ fs' = Put(fs, path, combined_content)
        /\ UNCHANGED <<assistants, vector_stores, threads>>

\* crawler = WebCrawler(); crawler.warmup()
Warmup(r) ==
    /\ req[r].pc = "warmup"
    /\ \/ IF Items(req[r].urls) = <<>>
          THEN WriteDocument(r, <<>>, <<>>)
          ELSE /\ req' = [req EXCEPT ![r].pc = "fetch"]
               /\ UNCHANGED <<fs, assistants, vector_stores, threads>>
       \/ /\ req' = [req EXCEPT ![r].pc = "error",
                                 ![r].response = [NoResponse EXCEPT !.status = 500,
                                                                    !.detail = <<"warmup">>]]
          /\ UNCHANGED <<fs, assistants, vector_stores, threads>>

\* One crawler.run(url): the url, whether it returned, and result.markdown.
Crawled(url, ok, markdown) == [url |-> url, ok |-> ok, markdown |-> markdown]

\* A failed fetch that is swallowed: the loop goes on without the page.
FetchFailedSkipped(r, url) ==
    LET log == Append(req[r].crawl, Crawled(url, FALSE, <<>>))
    IN  IF Len(log) = Len(Items(req[r].urls))
        THEN WriteDocument(r, req[r].scraped_contents, log)
        ELSE /\ req' = [req EXCEPT ![r].crawl = log]
             /\ UNCHANGED <<fs, assistants, vector_stores, threads>>

\* except Exception as e: raise HTTPException(500, f"Failed to scrape {url}: ...")
\* which the handler's own except turns into the error response.
FetchFailed(r, url) ==
    /\ req' = [req EXCEPT
            ![r].pc = "error",
            ![r].crawl = Append(@, Crawled(url, FALSE, <<>>)),
            ![r].response = [NoResponse EXCEPT
                                !.status = 500,
                                !.detail = <<"Failed to scrape", url>>]]
    /\ UNCHANGED <<fs, assistants, vector_stores, threads>>

\* One iteration of `for url in urls`: crawler.run(url), clean, append.
Fetch(r) ==
    /\ req[r].pc = "fetch"
    /\ LET url == Items(req[r].urls)[Len(req[r].crawl) + 1]
       IN  \/ LET markdown == Markdown(url)
                  scraped == Append(req[r].scraped_contents, Clean(markdown))
                  log == Append(req[r].crawl, Crawled(url, TRUE, markdown))
              IN  IF Len(log) = Len(Items(req[r].urls))
                  THEN WriteDocument(r, scraped, log)
                  ELSE /\ req' = [req EXCEPT ![r].scraped_contents = scraped,
                                             ![r].crawl = log]
                       /\ UNCHANGED <<fs, assistants, vector_stores, threads>>
           \/ FetchFailed(r, url)

\* assistant = client.beta.assistants.create(...)
CreateAssistant(r) ==
    /\ req[r].pc = "create_assistant"
    /\ \/ LET id == NewId(assistants)
          IN  /\ assistants' = Put(assistants, id, <<>>)
              /\ req' = [req EXCEPT ![r].pc = "create_vector_store",
                                    ![r].assistant = id,
                                    ![r].calls = Append(@, Call("create_assistant", TRUE, id))]
              /\ UNCHANGED <<fs, vector_stores, threads>>
       \/ Raise(r, "create_assistant", <<"create_assistant">>)

\* vector_store = client.beta.vector_stores.create(name="Scraped Content")
CreateVectorStore(r) ==
    /\ req[r].pc = "create_vector_store"
    /\ \/ LET id == NewId(vector_stores)
          IN  /\ vector_stores' = Put(vector_stores, id, <<>>)
              /\ req' = [req EXCEPT ![r].pc = "upload_and_poll",
                                    ![r].vector_store = id,
                                    ![r].calls = Append(@, Call("create_vector_store", TRUE, id))]
              /\ UNCHANGED <<fs, assistants, threads>>
       \/ Raise(r, "create_vector_store", <<"create_vector_store">>)

\* with open(file_path, "rb"): file_batches.upload_and_poll(vector_store.id, files)
\* The call returns when the batch reaches a final status; a batch that ends
\* "failed" raises nothing (its status is only printed) and ingests nothing.
UploadAndPoll(r) ==
    /\ req[r].pc = "upload_and_poll"
    /\ \/ /\ \E status \in {"completed", "failed"} :
                vector_stores' = [vector_stores EXCEPT
                    ![req[r].vector_store] =
                        IF status = "completed"
                        THEN Append(@, fs[req[r].temp_file_path])
                        ELSE @]
          /\ req' = [req EXCEPT ![r].pc = "update_assistant",
                                ![r].calls = Append(@, Call("upload_and_poll", TRUE, req[r].vector_store))]
          /\ UNCHANGED <<fs, assistants, threads>>
       \/ Raise(r, "upload_and_poll", <<"upload_and_poll">>)

\* The vector store the update call binds.
BoundStoreStale(r) == IF req[r].vector_store > 1 THEN req[r].vector_store - 1 ELSE 0
BoundStore(r) == req[r].vector_store

\* assistants.update(assistant.id, tool_resources={... [vector_store.id]});
\* return assistant, vector_store; the handler returns the two ids.
UpdateAssistant(r) ==
    /\ req[r].pc = "update_assistant"
    /\ \/ /\ assistants' = [assistants EXCEPT ![req[r].assistant] = <<BoundStore(r)>>]
          /\ req' = [req EXCEPT
                ![r].pc = "done",
                ![r].calls = Append(@, Call("update_assistant", TRUE, req[r].assistant)),
                ![r].response = [NoResponse EXCEPT
                                    !.status = 200,
                                    !.count = Len(Items(req[r].urls)),
                                    !.assistant_id = req[r].assistant,
                                    !.vector_store_id = req[r].vector_store]]
          /\ UNCHANGED <<fs, vector_stores, threads>>
       \/ Raise(r, "update_assistant", <<"update_assistant">>)


\* ----------------------------------------------------------- ask_question
\* Identifiers a caller may submit: ones returned earlier, or unknown ones.
AskIds == {1, 2}

ReceiveAsk(r, aid, vid) ==
    /\ req[r].pc = "idle"
    /\ req' = [req EXCEPT ![r].pc = "retrieve_assistant",
                          ![r].assistant_id = aid,
                          ![r].vector_store_id = vid]
    /\ UNCHANGED <<fs, assistants, vector_stores, threads>>

\* assistant = client.beta.assistants.retrieve(assistant_id)
RetrieveAssistant(r) ==
    /\ req[r].pc = "retrieve_assistant"
    /\ \/ /\ req[r].assistant_id \in DOMAIN assistants
          /\ req' = [req EXCEPT ![r].pc = "retrieve_vector_store",
                                ![r].assistant = req[r].assistant_id,
                                ![r].calls = Append(@, Call("retrieve_assistant", TRUE, req[r].assistant_id))]
          /\ UNCHANGED <<fs, assistants, vector_stores, threads>>
       \/ Raise(r, "retrieve_assistant", <<"retrieve_assistant">>)

\* A lookup whose failure is swallowed: the handler goes on regardless.
RetrieveVectorStoreUnchecked(r) ==
    /\ req[r].pc = "retrieve_vector_store"
    /\ req' = [req EXCEPT
            ![r].pc = "create_thread",
            ![r].vector_store = req[r].vector_store_id,
            ![r].calls = Append(@, Call("retrieve_vector_store",
                                        req[r].vector_store_id \in DOMAIN vector_stores,
                                        req[r].vector_store_id))]
    /\ UNCHANGED <<fs, assistants, vector_stores, threads>>

\* vector_store = client.beta.vector_stores.retrieve(vector_store_id)
RetrieveVectorStore(r) ==
    /\ req[r].pc = "retrieve_vector_store"
    /\ \/ /\ req[r].vector_store_id \in DOMAIN vector_stores
          /\ req' = [req EXCEPT ![r].pc = "create_thread",
                                ![r].vector_store = req[r].vector_store_id,
                                ![r].calls = Append(@, Call("retrieve_vector_store", TRUE, req[r].vector_store_id))]
          /\ UNCHANGED <<fs, assistants, vector_stores, threads>>
       \/ Raise(r, "retrieve_vector_store", <<"retrieve_vector_store">>)

\* thread = client.beta.threads.create(messages=[...question...])
CreateThread(r) ==
    /\ req[r].pc = "create_thread"
    /\ \/ LET id == NewId(threads)
          IN  /\ threads' = Put(threads, id, <<>>)
              /\ req' = [req EXCEPT ![r].pc = "create_run",
                                    ![r].thread = id,
                                    ![r].calls = Append(@, Call("create_thread", TRUE, id))]
              /\ UNCHANGED <<fs, assistants, vector_stores>>
       \/ Raise(r, "create_thread", <<"create_thread">>)

\* run = client.beta.threads.runs.create_and_poll(thread.id, assistant.id)
CreateRun(r) ==
    /\ req[r].pc = "create_run"
    /\ \/ /\ threads' = [threads EXCEPT ![req[r].thread] = Append(@, req[r].assistant)]
          /\ req' = [req EXCEPT ![r].pc = "list_messages",
                                ![r].calls = Append(@, Call("create_run", TRUE, req[r].thread))]
          /\ UNCHANGED <<fs, assistants, vector_stores>>
       \/ Raise(r, "create_run", <<"create_run">>)

\* answer = message_content.value + "\n\n" + "\n".join(citations); return
Answer(r, value, citations, log) ==
    /\ req' = [req EXCEPT
            ![r].pc = "done",
            ![r].value = value,
            ![r].citations = citations,
            ![r].index = Len(req[r].annotations),
            ![r].calls = log,
            ![r].response = [NoResponse EXCEPT
                                !.status = 200,
                                !.answer = value \o <<NL, NL>> \o Join(<<NL>>, citations)]]
    /\ UNCHANGED <<fs, assistants, vector_stores, threads>>

\* messages = list(client.beta.threads.messages.list(...)); messages[0]...
ListMessages(r) ==
    /\ req[r].pc = "list_messages"
    /\ \/ \E m \in Messages :
            LET log == Append(req[r].calls, Call("list_messages", TRUE, req[r].thread))
            IN  IF m.annotations = <<>>
                THEN Answer(r, m.value, <<>>, log)
                ELSE /\ req' = [req EXCEPT ![r].pc = "annotate",
                                           ![r].value = m.value,
                                           ![r].annotations = m.annotations,
                                           ![r].calls = log]
                     /\ UNCHANGED <<fs, assistants, vector_stores, threads>>
       \/ Raise(r, "list_messages", <<"list_messages">>)

\* One iteration of `for index, annotation in enumerate(annotations)`.
Annotate(r) ==
    /\ req[r].pc = "annotate"
    /\ LET index == req[r].index
           annotation == req[r].annotations[index + 1]
           value == Replace(req[r].value, annotation.text, Marker(index))
           last == index + 1 = Len(req[r].annotations)
       IN  IF annotation.file_id = 0
           THEN IF last
                THEN Answer(r, value, req[r].citations, req[r].calls)
                ELSE /\ req' = [req EXCEPT ![r].value = value, ![r].index = index + 1]
                     /\ UNCHANGED <<fs, assistants, vector_stores, threads>>
           ELSE \/ LET citations == Append(req[r].citations,
                                       Marker(index) \o <<" ">> \o Filename(annotation.file_id))
                       log == Append(req[r].calls, Call("retrieve_file", TRUE, annotation.file_id))
                   IN  IF last
                       THEN Answer(r, value, citations, log)
                       ELSE /\ req' = [req EXCEPT ![r].value = value,
                                                  ![r].index = index + 1,
                                                  ![r].citations = citations,
                                                  ![r].calls = log]
                            /\ UNCHANGED <<fs, assistants, vector_stores, threads>>
                \/ Raise(r, "retrieve_file", <<"retrieve_file">>)

\* ------------------------------------------------------------ specification
Next ==
    \/ \E r \in Reqs, b \in Bodies : ReceiveScrape(r, b) /\ UNCHANGED cleanVars
    \/ \E r \in Reqs : Warmup(r) /\ UNCHANGED cleanVars
    \/ \E r \in Reqs : Fetch(r) /\ UNCHANGED cleanVars
    \/ \E r \in Reqs : CreateAssistant(r) /\ UNCHANGED cleanVars
    \/ \E r \in Reqs : CreateVectorStore(r) /\ UNCHANGED cleanVars
    \/ \E r \in Reqs : UploadAndPoll(r) /\ UNCHANGED cleanVars
    \/ \E r \in Reqs : UpdateAssistant(r) /\ UNCHANGED cleanVars
    \/ \E r \in Reqs, aid \in AskIds, vid \in AskIds :
          ReceiveAsk(r, aid, vid) /\ UNCHANGED cleanVars
    \/ \E r \in Reqs : RetrieveAssistant(r) /\ UNCHANGED cleanVars
    \/ \E r \in Reqs : RetrieveVectorStore(r) /\ UNCHANGED cleanVars
    \/ \E r \in Reqs : CreateThread(r) /\ UNCHANGED cleanVars
    \/ \E r \in Reqs : CreateRun(r) /\ UNCHANGED cleanVars
    \/ \E r \in Reqs : ListMessages(r) /\ UNCHANGED cleanVars
    \/ \E r \in Reqs : Annotate(r) /\ UNCHANGED cleanVars

Spec == Init /\ [][Next]_vars

CleanNext == ApplyPattern /\ UNCHANGED svcVars

\* content = result.markdown, for every markdown of at most MaxLen tokens; the
\* service itself is idle.
CleanInit ==
    /\ req = [r \in Reqs |-> InitReq]
    /\ fs = <<>>
    /\ assistants = <<>>
    /\ vector_stores = <<>>
    /\ threads = <<>>
    /\ raw \in SeqsUpTo(Alphabet, MaxLen)
    /\ content = raw
    /\ pat = 0

SpecClean == CleanInit /\ [][CleanNext]_vars


\* ================================================================== claims
ScrapeReqs == {r \in Reqs : req[r].body.kind \in {"str", "list"}}
AskReqs == {r \in Reqs : req[r].assistant_id # 0}

Ops(log) == [i \in 1..Len(log) |-> log[i].op]
Oks(log) == [i \in 1..Len(log) |-> log[i].ok]
IsPrefix(s, t) == Len(s) <= Len(t) /\ SubSeq(t, 1, Len(s)) = s

\* The URL sequence of the request body as the caller wrote it.
InputUrls(r) ==
    IF req[r].body.kind = "str" THEN <<req[r].body.val>> ELSE req[r].body.val

AFetchFailed(r) == \E i \in 1..Len(req[r].crawl) : ~req[r].crawl[i].ok

\* C1: if the fetch of any URL of a request fails, that request writes no
\* temporary document (every file on disk is another request's), issues no
\* indexing call, and ends in an error response; the failed fetch is its last.
C1_FailFast ==
    \A r \in Reqs :
        AFetchFailed(r) =>
            /\ req[r].pc = "error"
            /\ req[r].temp_file_path = 0
            /\ req[r].calls = <<>>
            /\ req[r].assistant = 0 /\ req[r].vector_store = 0
            /\ req[r].response.status = 500
            /\ req[r].response.assistant_id = 0 /\ req[r].response.vector_store_id = 0
            /\ ~req[r].crawl[Len(req[r].crawl)].ok
            /\ \A path \in DOMAIN fs : \E q \in Reqs \ {r} : req[q].temp_file_path = path

C1_Witness ==
    \E r \in Reqs :
        /\ Len(req[r].crawl) = 2
        /\ req[r].crawl[1].ok /\ ~req[r].crawl[2].ok
        /\ req[r].pc = "error"

\* Start position of part i in the joined document.
RECURSIVE Offset(_, _)
Offset(parts, i) ==
    IF i = 1 THEN 1
    ELSE Offset(parts, i - 1) + Len(parts[i - 1]) + Len(Separator)

\* d is the parts in order with exactly one separator between neighbours.
IsJoined(d, parts) ==
    IF parts = <<>> THEN d = <<>>
    ELSE /\ Len(d) = Offset(parts, Len(parts)) + Len(parts[Len(parts)]) - 1
         /\ \A i \in 1..Len(parts) :
                SubSeq(d, Offset(parts, i), Offset(parts, i) + Len(parts[i]) - 1) = parts[i]
         /\ \A i \in 1..(Len(parts) - 1) :
                SubSeq(d, Offset(parts, i) + Len(parts[i]), Offset(parts, i + 1) - 1)
                    = <<"\n", "\n", "---", "\n", "\n">>

CleanedPages(r) == [i \in 1..Len(req[r].crawl) |-> Clean(req[r].crawl[i].markdown)]

\* C2: the document a request writes is the cleaned texts of its URLs, one per
\* URL and in input order, joined by the separator; each URL is fetched once.
C2_Document ==
    \A r \in Reqs :
        req[r].temp_file_path # 0 =>
            /\ [i \in 1..Len(req[r].crawl) |-> req[r].crawl[i].url] = InputUrls(r)
            /\ \A i \in 1..Len(req[r].crawl) : req[r].crawl[i].ok
            /\ req[r].temp_file_path \in DOMAIN fs
            /\ IsJoined(fs[req[r].temp_file_path], CleanedPages(r))

C2_Witness ==
    \E r \in Reqs :
        /\ req[r].temp_file_path # 0
        /\ Len(req[r].crawl) = 2
        /\ req[r].crawl[1].url # req[r].crawl[2].url
        /\ req[r].crawl[1].markdown # req[r].crawl[2].markdown
        /\ Clean(req[r].crawl[1].markdown) # req[r].crawl[1].markdown

\* ---- cleanup
HasSpan(p, s) == \E i \in 1..Len(s) : \E j \in (i + 1)..Len(s) : s[i] = p.start /\ s[j] = p.end

\* Position k lies in a span from a start marker to the nearest following end
\* marker.
InSpan(p, s, k) ==
    \E i \in 1..k :
        /\ s[i] = p.start
        /\ \A m \in (i + 1)..(k - 1) : s[m] # p.end
        /\ \E j \in (IF k > i THEN k ELSE i + 1)..Len(s) : s[j] = p.end

\* s without the positions that lie in such a span, the rest in order.
WithoutSpans(p, s) ==
    LET keep == {k \in 1..Len(s) : ~InSpan(p, s, k)}
    IN  [n \in 1..Cardinality(keep) |->
            s[CHOOSE k \in keep : Cardinality({m \in keep : m <= k}) = n]]

\* C9: the cleanup applies the two rules in order; each deletes exactly the
\* spans from a start marker to the nearest following end marker, line breaks
\* included, and leaves the rest in order; a text with no complete span of
\* either rule comes back unchanged.
C9_Cleanup ==
    /\ pat = 1 => content = WithoutSpans(patterns[1], raw)
    /\ pat = 2 => content = WithoutSpans(patterns[2], WithoutSpans(patterns[1], raw))
    /\ (~HasSpan(patterns[1], raw) /\ ~HasSpan(patterns[2], raw)) => content = raw

C9_Witness ==
    /\ pat = 2
    /\ \E i \in 1..Len(raw) :
           /\ raw[i] = SubscribeStart
           /\ i + 2 <= Len(raw) /\ raw[i + 1] = NL /\ raw[i + 2] = SubscribeEnd
    /\ \E i \in 1..Len(raw) : raw[i] = SkipStart
    /\ content = <<"x", SkipStart>>

\* ---- annotations
Occurrences(s, sub) ==
    {i \in 1..(Len(s) - Len(sub) + 1) : SubSeq(s, i, i + Len(sub) - 1) = sub}

StartsWith(s, prefix) == IsPrefix(prefix, s)

\* C3: for a raw answer with N annotations the returned answer holds exactly
\* the N markers [0]..[N-1], once each and in annotation order, followed by a
\* reference list of exactly N lines, line i starting with [i] and, where
\* annotation i cites a file, that file's name.
C3_MarkersAndReferences ==
    \A r \in AskReqs :
        (req[r].pc = "done") =>
            LET N == Len(req[r].annotations)
                value == req[r].value
                citations == req[r].citations
            IN  /\ \A i \in 0..(N - 1) : Cardinality(Occurrences(value, Marker(i))) = 1
                /\ \A i \in 0..(N - 2) :
                       \A a \in Occurrences(value, Marker(i)) :
                           \A b \in Occurrences(value, Marker(i + 1)) : a < b
                /\ Occurrences(value, Marker(N)) = {}
                /\ Len(citations) = N
                /\ \A i \in 0..(N - 1) :
                       /\ i + 1 <= Len(citations)
                       /\ StartsWith(citations[i + 1], Marker(i) \o <<" ">>)
                       /\ req[r].annotations[i + 1].file_id # 0 =>
                              citations[i + 1] = Marker(i) \o <<" ">>
                                  \o Filename(req[r].annotations[i + 1].file_id)
                /\ req[r].response.answer = value \o <<NL, NL>> \o Join(<<NL>>, citations)

\* C4: the URL sequence that scrape_urls iterates is never empty, and no
\* empty document is written or indexed.
C4_NonEmptyUrls ==
    /\ \A r \in ScrapeReqs : Items(req[r].urls) # <<>>
    /\ \A path \in DOMAIN fs : fs[path] # <<>>
    /\ \A id \in DOMAIN vector_stores :
           \A i \in 1..Len(vector_stores[id]) : vector_stores[id][i] # <<>>

\* ---- indexing order
IndexOrder == <<"create_assistant", "create_vector_store", "upload_and_poll", "update_assistant">>

\* C5: the indexing calls are issued in the order create assistant, create
\* vector store, upload, update; the update comes only after the upload has
\* returned and binds exactly the vector store created by the same request,
\* which is then the assistant's only vector store; the response returns
\* these two identifiers.
C5_IndexingOrder ==
    \A r \in ScrapeReqs :
        /\ IsPrefix(Ops(req[r].calls), IndexOrder)
        /\ \A i \in 1..Len(req[r].calls) :
               req[r].calls[i].op = "update_assistant" =>
                   /\ i > 1
                   /\ req[r].calls[i - 1] = Call("upload_and_poll", TRUE, req[r].calls[2].id)
        /\ req[r].pc = "done" =>
               LET a == req[r].calls[1].id
                   v == req[r].calls[2].id
               IN  /\ Len(req[r].calls) = 4
                   /\ \A i \in 1..4 : req[r].calls[i].ok
                   /\ req[r].calls[3].id = v
                   /\ req[r].calls[4].id = a
                   /\ a \in DOMAIN assistants /\ assistants[a] = <<v>>
                   /\ v \in DOMAIN vector_stores
                   /\ req[r].response.status = 200
                   /\ req[r].response.assistant_id = a
                   /\ req[r].response.vector_store_id = v

C5_Witness ==
    \E r \in ScrapeReqs :
        /\ req[r].pc = "done"
        /\ req[r].response.vector_store_id = 2
        /\ req[r].response.assistant_id = 1

\* Identifiers of the assistants / vector stores a request has created.
Created(r, op) ==
    {req[r].calls[i].id : i \in {k \in 1..Len(req[r].calls) :
                                    req[r].calls[k].op = op /\ req[r].calls[k].ok}}

ARemoteCallFailed(r) == \E i \in 1..Len(req[r].calls) : ~req[r].calls[i].ok

\* C6: once a remote call of an acquire-and-index request has failed, the
\* failed call is the request's last call and was issued once, the response
\* is an error that carries no identifier, and every assistant and vector
\* store the request created still exists.
C6_AbortWithoutCleanup ==
    \A r \in ScrapeReqs :
        ARemoteCallFailed(r) =>
            /\ req[r].pc = "error"
            /\ \A i \in 1..(Len(req[r].calls) - 1) : req[r].calls[i].ok
            /\ \A i, j \in 1..Len(req[r].calls) :
                   req[r].calls[i].op = req[r].calls[j].op => i = j
            /\ req[r].response.status = 500
            /\ req[r].response.assistant_id = 0
            /\ req[r].response.vector_store_id = 0
            /\ Created(r, "create_assistant") \subseteq DOMAIN assistants
            /\ Created(r, "create_vector_store") \subseteq DOMAIN vector_stores

C6_Witness ==
    \E r \in ScrapeReqs :
        /\ ARemoteCallFailed(r)
        /\ req[r].calls[Len(req[r].calls)].op = "upload_and_poll"
        /\ Created(r, "create_assistant") # {}
        /\ Created(r, "create_vector_store") # {}

\* ---- string and one-element list
Finished(r) == req[r].pc \in {"done", "error"}

DocumentOf(r) ==
    IF req[r].temp_file_path = 0 THEN <<"no document">> ELSE fs[req[r].temp_file_path]

\* C7: a request whose urls is the string s and a request whose urls is the
\* list [s] reach scrape_urls with the same sequence; when the crawler and
\* the remote calls answer both alike, both make the same crawler calls,
\* write the same document, issue the same indexing calls and respond alike.
C7_StringAsList ==
    \A r1, r2 \in ScrapeReqs :
        ( /\ req[r1].body.kind = "str"
          /\ req[r2].body.kind = "list"
          /\ req[r2].body.val = <<req[r1].body.val>> ) =>
            /\ Items(req[r1].urls) = Items(req[r2].urls)
            /\ ( /\ Finished(r1) /\ Finished(r2)
                 /\ [i \in 1..Len(req[r1].crawl) |->
                        <<req[r1].crawl[i].ok, req[r1].crawl[i].markdown>>]
                    = [i \in 1..Len(req[r2].crawl) |->
                        <<req[r2].crawl[i].ok, req[r2].crawl[i].markdown>>]
                 /\ Oks(req[r1].calls) = Oks(req[r2].calls) ) =>
                   /\ req[r1].crawl = req[r2].crawl
                   /\ DocumentOf(r1) = DocumentOf(r2)
                   /\ Ops(req[r1].calls) = Ops(req[r2].calls)
                   /\ req[r1].response.status = req[r2].response.status
                   /\ req[r1].response.detail = req[r2].response.detail
                   /\ req[r1].response.count = req[r2].response.count

C7_Witness ==
    \E r1, r2 \in ScrapeReqs :
        /\ req[r1].body.kind = "str"
        /\ req[r2].body.kind = "list"
        /\ req[r2].body.val = <<req[r1].body.val>>
        /\ req[r1].pc = "done" /\ req[r2].pc = "done"
        /\ req[r1].crawl = req[r2].crawl

\* ---- isolation of requests
\* The document of request r run on its own: a function of its body only.
OwnDocument(r) ==
    Join(Separator, [i \in 1..Len(InputUrls(r)) |-> Clean(Markdown(InputUrls(r)[i]))])

\* C8: requests interfere through no local state: whatever the interleaving,
\* the file a request uploads holds its own document, the vector store it
\* created holds nothing else, no two requests share a temporary file, an
\* assistant, a vector store or a thread, and an ask works on exactly the
\* identifiers its caller supplied, its thread carrying its own run only.
C8_Isolation ==
    /\ \A r \in ScrapeReqs :
           /\ req[r].temp_file_path # 0 =>
                  fs[req[r].temp_file_path] = OwnDocument(r)
           /\ req[r].vector_store # 0 =>
                  IsPrefix(vector_stores[req[r].vector_store],
                           <<OwnDocument(r)>>)
    /\ \A r1, r2 \in ScrapeReqs :
           r1 # r2 =>
               /\ req[r1].temp_file_path # 0 => req[r1].temp_file_path # req[r2].temp_file_path
               /\ req[r1].assistant # 0 => req[r1].assistant # req[r2].assistant
               /\ req[r1].vector_store # 0 => req[r1].vector_store # req[r2].vector_store
    /\ \A r \in AskReqs :
           /\ req[r].assistant \in {0, req[r].assistant_id}
           /\ req[r].vector_store \in {0, req[r].vector_store_id}
           /\ req[r].thread # 0 =>
                  IsPrefix(threads[req[r].thread], <<req[r].assistant_id>>)
    /\ \A r1, r2 \in AskReqs :
           (r1 # r2 /\ req[r1].thread # 0) => req[r1].thread # req[r2].thread

C8_Witness ==
    \E r1, r2 \in ScrapeReqs :
        /\ r1 # r2
        /\ req[r1].pc = "done" /\ req[r2].pc = "done"
        /\ req[r1].temp_file_path < req[r2].temp_file_path
        /\ req[r1].vector_store > req[r2].vector_store
        /\ fs[req[r1].temp_file_path] # fs[req[r2].temp_file_path]
        /\ vector_stores[req[r1].vector_store] = <<fs[req[r1].temp_file_path]>>
        /\ vector_stores[req[r2].vector_store] = <<fs[req[r2].temp_file_path]>>

\* ---- ask: lookups first
ConversationOps == {"create_thread", "create_run", "list_messages", "retrieve_file"}

\* C10: an ask request starts a thread or a run only after the lookups of the
\* supplied assistant id and vector store id have both succeeded, in that
\* order; if either lookup fails the request ends in an error response with
\* no thread created and no run started.
C10_LookupsFirst ==
    \A r \in AskReqs :
        /\ ( \/ req[r].thread # 0
             \/ \E i \in 1..Len(req[r].calls) : req[r].calls[i].op \in ConversationOps ) =>
               /\ Len(req[r].calls) >= 2
               /\ req[r].calls[1] = Call("retrieve_assistant", TRUE, req[r].assistant_id)
               /\ req[r].calls[2] = Call("retrieve_vector_store", TRUE, req[r].vector_store_id)
        /\ ( \E i \in 1..Len(req[r].calls) :
                /\ req[r].calls[i].op \in {"retrieve_assistant", "retrieve_vector_store"}
                /\ ~req[r].calls[i].ok ) =>
               /\ req[r].pc = "error"
               /\ req[r].response.status = 500
               /\ req[r].thread = 0
               /\ \A i \in 1..Len(req[r].calls) : req[r].calls[i].op \notin ConversationOps
               /\ \A t \in DOMAIN threads : \E q \in AskReqs \ {r} : req[q].thread = t

C10_Witness ==
    \E r \in AskReqs :
        /\ req[r].pc = "error"
        /\ Ops(req[r].calls) = <<"retrieve_assistant", "retrieve_vector_store">>
        /\ req[r].calls[1].ok
        /\ req[r].vector_store_id \notin DOMAIN vector_stores

====
